---- MODULE Spec2Model ----
(***************************************************************************)
(* Model of the VizAI single-page application: the React state of App,     *)
(* its event handlers (CSV upload, image upload, generate), the two AI     *)
(* service calls, the processData aggregation heuristic and renderChart.   *)
(***************************************************************************)
EXTENDS Integers, Sequences, FiniteSets, TLC

VARIABLES
    dataset,        \* useState<Dataset | null>
    config,         \* useState<VisualizationConfig | null>
    loading,        \* useState(false)
    prompt,         \* useState('')
    imagePreview,   \* useState<string | null>
    activeTab,      \* useState<'chart' | 'r' | 'python'>
    mounted,        \* has the mount effect's loadExampleTitanic().then run
    parsing,        \* the files whose parseCSV promise has not settled
    reading,        \* the results of the FileReader reads that have not ended
    inflight,       \* AI requests issued and not yet settled
    issued,         \* number of calls of analyzeImageAndData / refineConfig
    uploads,        \* number of CSV uploads started
    alerts,         \* the alert() messages shown so far, in order
    apiKey,         \* is process.env.API_KEY set
    view            \* what the last render produced (chartData and the panel)

vars == <<dataset, config, loading, prompt, imagePreview, activeTab, mounted,
          parsing, reading, inflight, issued, uploads, alerts, apiKey, view>>

NULL == [isNull |-> TRUE]

(***************************************************************************)
(* JavaScript values held in the cells of a row.  A string value carries   *)
(* the number of "1" characters appended to it by string concatenation     *)
(* in field ones (0 for every value read from a CSV).                      *)
(***************************************************************************)
Num(n) == [t |-> "number", n |-> n, s |-> "", ones |-> 0]
Str(s) == [t |-> "string", n |-> 0, s |-> s, ones |-> 0]
Null == [t |-> "null", n |-> 0, s |-> "", ones |-> 0]
Undefined == [t |-> "undefined", n |-> 0, s |-> "", ones |-> 0]
\* Object.prototype.constructor and the other inherited functions
Function(name) == [t |-> "function", n |-> 0, s |-> name, ones |-> 0]
\* Object.prototype itself, as read through the __proto__ accessor
ObjectPrototype == [t |-> "object", n |-> 0, s |-> "", ones |-> 0]

\* Function.prototype.toString of a built-in function
FunctionSource(name) ==
    CASE name = "constructor" -> "function Object() { [native code] }"
      [] name = "toString" -> "function toString() { [native code] }"
      [] name = "valueOf" -> "function valueOf() { [native code] }"
      [] name = "hasOwnProperty" -> "function hasOwnProperty() { [native code] }"
      [] name = "isPrototypeOf" -> "function isPrototypeOf() { [native code] }"
      [] name = "propertyIsEnumerable" -> "function propertyIsEnumerable() { [native code] }"
      [] OTHER -> "function toLocaleString() { [native code] }"

\* String(value)
String(v) ==
    CASE v.t = "number" -> ToString(v.n)
      [] v.t = "string" -> v.s
      [] v.t = "null" -> "null"
      [] v.t = "undefined" -> "undefined"
      [] v.t = "function" -> FunctionSource(v.s)
      [] OTHER -> "[object Object]"

\* JavaScript truthiness of a cell value
Truthy(v) ==
    CASE v.t = "number" -> v.n # 0
      [] v.t = "string" -> v.s # "" \/ v.ones > 0
      [] v.t \in {"null", "undefined"} -> FALSE
      [] OTHER -> TRUE

\* The absent field of a configuration (a field the payload does not carry)
Undef == "<undefined>"
\* JavaScript truthiness of a string-or-undefined configuration field
Falsy(s) == s \in {Undef, ""}
\* a || b on configuration fields
OrElse(a, b) == IF Falsy(a) THEN b ELSE a
\* The property key a configuration field is used as: [config.xAxisKey]
PropertyKey(s) == IF s = Undef THEN "undefined" ELSE s

\* An optional array field of a configuration
Arr(items) == [isArray |-> TRUE, items |-> items]
NoArr == [isArray |-> FALSE, items |-> <<>>]

\* enum ChartType
ChartType_BAR == "bar"
ChartType_LINE == "line"
ChartType_SCATTER == "scatter"
ChartType_AREA == "area"
ChartType_PIE == "pie"
ChartType_RADAR == "radar"
ChartType_COMPOSED == "composed"
ChartType ==
    {ChartType_BAR, ChartType_LINE, ChartType_SCATTER, ChartType_AREA,
     ChartType_PIE, ChartType_RADAR, ChartType_COMPOSED}

\* interface VisualizationConfig, with the fields the application reads
VisualizationConfig(chartType, xAxisKey, yAxisKey, seriesKeys, colors, title, rCode, pythonCode) ==
    [chartType |-> chartType, xAxisKey |-> xAxisKey, yAxisKey |-> yAxisKey,
     seriesKeys |-> seriesKeys, colors |-> colors, title |-> title,
     rCode |-> rCode, pythonCode |-> pythonCode]

\* row[key]: undefined when the row has no such column
Get(row, key) == IF key \in DOMAIN row THEN row[key] ELSE Undefined

(***************************************************************************)
(* processData: the aggregation heuristic.                                 *)
(***************************************************************************)
\* data.length > 20
AggregationThreshold == 20

\* The names every plain object inherits from Object.prototype as functions
ObjectPrototypeKeys ==
    {"constructor", "toString", "valueOf", "hasOwnProperty", "isPrototypeOf",
     "propertyIsEnumerable", "toLocaleString"}

\* counts is the list of own properties <<key, value>> in insertion order
OwnIndex(counts, key) ==
    IF \E i \in 1..Len(counts) : counts[i][1] = key
    THEN CHOOSE i \in 1..Len(counts) : counts[i][1] = key
    ELSE 0

\* counts[key] of the empty object {}: what the prototype chain gives
Inherited(key) ==
    IF key = "__proto__" THEN ObjectPrototype
    ELSE IF key \in ObjectPrototypeKeys THEN Function(key)
    ELSE Undefined

\* (x || 0) + 1: numeric addition, or concatenation when x is not a number
PlusOne(x) ==
    IF ~Truthy(x) THEN Num(1)
    ELSE IF x.t = "number" THEN Num(x.n + 1)
    ELSE [t |-> "string", n |-> 0, s |-> String(x), ones |-> x.ones + 1]

\* counts[key] after n rows of that key: (counts[key] || 0) + 1, n times.
\* The first increment decides between a number and a string; every later
\* one adds 1 to the number or appends "1" to the string
PlusOneTimes(x, n) ==
    IF n = 0 THEN x
    ELSE LET y == PlusOne(x)
         IN IF y.t = "number" THEN Num(y.n + (n - 1))
            ELSE [y EXCEPT !.ones = y.ones + (n - 1)]

\* String(row[config.xAxisKey]) of every row
RowKeys(data, xAxisKey) ==
    [i \in 1..Len(data) |-> String(Get(data[i], PropertyKey(xAxisKey)))]

\* data.forEach(row => { counts[key] = (counts[key] || 0) + 1 }): a key becomes
\* an own property at its first row, in that order, and holds the result of
\* one increment for each of its rows; the __proto__ setter ignores a value
\* that is no object, so that key never becomes an own property
CountRows(data, xAxisKey) ==
    LET keys == RowKeys(data, xAxisKey)
        IsFirst(i) == keys[i] # "__proto__" /\ \A j \in 1..(i - 1) : keys[j] # keys[i]
        first == SelectSeq([i \in 1..Len(keys) |-> i], IsFirst)
        Rows(key) == Cardinality({i \in 1..Len(keys) : keys[i] = key})
    IN [j \in 1..Len(first) |->
            <<keys[first[j]], PlusOneTimes(Inherited(keys[first[j]]), Rows(keys[first[j]]))>>]

\* The largest number a cell of the modelled datasets holds
MaxCell == 6

\* Is key an integer-like property name ("0", "1", ...)
IsIndexKey(key) == \E n \in 0..MaxCell : ToString(n) = key

\* The integer-like entries in ascending numeric order
RECURSIVE IndexEntries(_, _)
IndexEntries(counts, n) ==
    IF n > MaxCell THEN <<>>
    ELSE (IF OwnIndex(counts, ToString(n)) # 0
          THEN <<counts[OwnIndex(counts, ToString(n))]>>
          ELSE <<>>) \o IndexEntries(counts, n + 1)

\* Object.entries(counts): integer-like keys ascending, then insertion order
ObjectEntries(counts) ==
    LET NotIndex(e) == ~IsIndexKey(e[1])
    IN IndexEntries(counts, 0) \o SelectSeq(counts, NotIndex)

\* ([name, value]) => ({ [config.xAxisKey]: name, [config.yAxisKey || 'value']: value, name })
\* a later property of the literal overwrites an earlier one of the same key
AggregatedEntry(cfg, name, value) ==
    LET xk == PropertyKey(cfg.xAxisKey)
        yk == OrElse(cfg.yAxisKey, "value")
    IN [k \in {xk, yk, "name"} |->
            IF k = "name" THEN Str(name)
            ELSE IF k = yk THEN value
            ELSE Str(name)]

\* IsLargeCategorical without the test of data.length
IsLargeCategorical_AnyLength(data, cfg) ==
    cfg.chartType \in {ChartType_PIE, ChartType_BAR}

\* (config.chartType === PIE || config.chartType === BAR) && data.length > 20
IsLargeCategorical(data, cfg) ==
    /\ cfg.chartType \in {ChartType_PIE, ChartType_BAR}
    /\ Len(data) > AggregationThreshold

\* !config.yAxisKey || config.yAxisKey === 'count'
WantsCount(cfg) == Falsy(cfg.yAxisKey) \/ cfg.yAxisKey = "count"

processData(data, cfg) ==
    IF cfg = NULL THEN <<>>
    ELSE IF IsLargeCategorical(data, cfg) /\ WantsCount(cfg)
    THEN LET entries == ObjectEntries(CountRows(data, cfg.xAxisKey))
         IN [i \in 1..Len(entries) |->
                AggregatedEntry(cfg, entries[i][1], entries[i][2])]
    ELSE data

(***************************************************************************)
(* renderChart                                                             *)
(***************************************************************************)
COLORS == <<"#3b82f6", "#10b981", "#f59e0b", "#ef4444", "#8b5cf6", "#ec4899", "#6366f1">>

\* config.colors?.[i], with i counted from 0
ColorAt(cfg, i) ==
    IF cfg.colors.isArray /\ i + 1 <= Len(cfg.colors.items)
    THEN cfg.colors.items[i + 1]
    ELSE Undef

\* SeriesColor without the fallback palette: config.colors?.[i] alone
SeriesColor_NoFallback(cfg, i) == ColorAt(cfg, i)

\* config.colors?.[i] || COLORS[i % COLORS.length]
SeriesColor(cfg, i) == OrElse(ColorAt(cfg, i), COLORS[(i % Len(COLORS)) + 1])

\* config.colors?.[index % (config.colors.length || 1)] || COLORS[index % COLORS.length]
CellColor(cfg, index) ==
    LET len == IF cfg.colors.isArray THEN Len(cfg.colors.items) ELSE 0
        n == IF len = 0 THEN 1 ELSE len
    IN OrElse(ColorAt(cfg, index % n), COLORS[(index % Len(COLORS)) + 1])

\* config.seriesKeys && config.seriesKeys.length > 0 ? config.seriesKeys : [config.yAxisKey]
SeriesKeys(cfg) ==
    IF cfg.seriesKeys.isArray /\ Len(cfg.seriesKeys.items) > 0
    THEN cfg.seriesKeys.items
    ELSE <<cfg.yAxisKey>>

\* keys.map((key, i) => <El dataKey={key} fill/stroke={...} />)
SeriesOf(el, cfg) ==
    LET keys == SeriesKeys(cfg)
    IN [i \in 1..Len(keys) |->
            [el |-> el, dataKey |-> keys[i], color |-> SeriesColor(cfg, i - 1)]]

Placeholder == [kind |-> "placeholder", data |-> <<>>, series |-> <<>>]

\* renderChart whose switch has no default case
renderChart_NoDefault(ds, cfg, chartData) ==
    IF cfg = NULL \/ ds = NULL THEN Placeholder
    ELSE CASE cfg.chartType = ChartType_BAR ->
                [kind |-> "BarChart", data |-> chartData, series |-> SeriesOf("Bar", cfg)]
           [] cfg.chartType = ChartType_LINE ->
                [kind |-> "LineChart", data |-> chartData, series |-> SeriesOf("Line", cfg)]
           [] cfg.chartType = ChartType_AREA ->
                [kind |-> "AreaChart", data |-> chartData, series |-> SeriesOf("Area", cfg)]
           [] OTHER -> [kind |-> "none", data |-> <<>>, series |-> <<>>]

renderChart(ds, cfg, chartData) ==
    IF cfg = NULL \/ ds = NULL THEN Placeholder
    ELSE CASE cfg.chartType = ChartType_BAR ->
                [kind |-> "BarChart", data |-> chartData, series |-> SeriesOf("Bar", cfg)]
           [] cfg.chartType = ChartType_LINE ->
                [kind |-> "LineChart", data |-> chartData, series |-> SeriesOf("Line", cfg)]
           [] cfg.chartType = ChartType_SCATTER ->
                [kind |-> "ScatterChart", data |-> chartData,
                 series |-> <<[el |-> "Scatter", dataKey |-> cfg.yAxisKey, color |-> "#8884d8"]>>]
           [] cfg.chartType = ChartType_PIE ->
                [kind |-> "PieChart", data |-> chartData,
                 series |-> [i \in 1..Len(chartData) |->
                     [el |-> "Cell", dataKey |-> OrElse(cfg.yAxisKey, "value"),
                      color |-> CellColor(cfg, i - 1)]]]
           [] cfg.chartType = ChartType_AREA ->
                [kind |-> "AreaChart", data |-> chartData, series |-> SeriesOf("Area", cfg)]
           [] OTHER ->
                [kind |-> "ComposedChart", data |-> chartData, series |-> SeriesOf("Bar", cfg)]

\* The render of App: useMemo(processData) and the panel of the active tab
Unrendered == [chartData |-> <<>>, panel |-> [kind |-> "none", data |-> <<>>, series |-> <<>>]]

Code(text) == [kind |-> "code", data |-> <<>>, series |-> <<[el |-> "code", dataKey |-> text, color |-> ""]>>]

Render(ds, cfg, tab) ==
    LET chartData == processData(IF ds = NULL THEN <<>> ELSE ds.data, cfg)
    IN [chartData |-> chartData,
        panel |-> CASE tab = "chart" -> renderChart(ds, cfg, chartData)
                    [] tab = "r" ->
                         Code(IF cfg = NULL THEN "# R code will appear here"
                              ELSE OrElse(cfg.rCode, "# R code will appear here"))
                    [] OTHER ->
                         Code(IF cfg = NULL THEN "# Python code will appear here"
                              ELSE OrElse(cfg.pythonCode, "# Python code will appear here"))]
(***************************************************************************)
(* The inputs: CSV files, image files, prompts and AI responses.           *)
(***************************************************************************)
\* interface Dataset
Dataset(name, data, columns) == [name |-> name, data |-> data, columns |-> columns]

\* The rows of the embedded example (the columns with integer or short values)
TitanicRow(id, survived, pclass, sex, sibsp, embarked) ==
    [PassengerId |-> Num(id), Survived |-> Num(survived), Pclass |-> Num(pclass),
     Sex |-> Str(sex), SibSp |-> Num(sibsp), Embarked |-> Str(embarked)]

TitanicColumns == <<"PassengerId", "Survived", "Pclass", "Sex", "SibSp", "Embarked">>

TitanicData ==
    <<TitanicRow(1, 0, 3, "male", 1, "S"), TitanicRow(2, 1, 1, "female", 1, "C"),
      TitanicRow(3, 1, 3, "female", 0, "S"), TitanicRow(4, 1, 1, "female", 1, "S"),
      TitanicRow(5, 0, 3, "male", 0, "S"), TitanicRow(6, 0, 3, "male", 0, "Q")>>

\* loadExampleTitanic resolves with the parsed embedded text
loadExampleTitanic == [data |-> TitanicData, columns |-> TitanicColumns]

\* n rows of the same category, Pclass cycling over 1..3
Block(v, n) == [i \in 1..n |-> [Category |-> v, Pclass |-> Num(1 + (i % 3))]]

\* The largest block of equal rows in a generated dataset
MaxBlock == 10

BlockSizes == {0, 1, 5, MaxBlock}

\* The cell values of the Category column
CellValues == {Num(1), Null, Str("null"), Str("A"), Str("constructor"), Str("__proto__")}

\* What Papa.parse reports for a file: an error, or data and meta.fields
PapaResult(error, fields, data) == [error |-> error, fields |-> fields, data |-> data]

CsvFile(name, results) == [name |-> name, results |-> results]

SurveyData == Block(Str("A"), 10) \o Block(Str("B"), 10) \o Block(Str("C"), 5)

CsvFiles ==
    {CsvFile("survey.csv", PapaResult(FALSE, Arr(<<"Category", "Pclass">>), SurveyData)),
     CsvFile("broken.csv", PapaResult(TRUE, NoArr, <<>>)),
     CsvFile("empty.csv", PapaResult(FALSE, NoArr, <<>>))}

\* parseCSV without the test of results.meta.fields
parseCSV_NoFieldsCheck(file) ==
    IF file.results.error THEN [ok |-> FALSE, data |-> <<>>, columns |-> <<>>]
    ELSE [ok |-> TRUE, data |-> file.results.data, columns |-> file.results.fields.items]

\* parseCSV: resolve with {data, columns} when meta.fields is set, else reject
parseCSV(file) ==
    IF file.results.error THEN [ok |-> FALSE, data |-> <<>>, columns |-> <<>>]
    ELSE IF file.results.fields.isArray
    THEN [ok |-> TRUE, data |-> file.results.data, columns |-> file.results.fields.items]
    ELSE [ok |-> FALSE, data |-> <<>>, columns |-> <<>>]

\* A data URL as the list of its comma-separated parts; reader.result is
\* null when the read failed
DataUrl(parts) == [isNull |-> FALSE, parts |-> parts]
NoImage == [isNull |-> TRUE, parts |-> <<>>]

ImageResults == {DataUrl(<<"data:image/png;base64", "iVBORw0KGgo">>), NoImage}

\* imageDataBase64.split(',')[1] || imageDataBase64
CleanBase64(image) ==
    IF Len(image.parts) >= 2 /\ image.parts[2] # ""
    THEN <<image.parts[2]>>
    ELSE image.parts

Prompts == {"", "make the bars red"}

Tabs == {"chart", "r", "python"}

\* The texts a response carries; "" is a response without text
CountBarText == "{chartType:bar,xAxisKey:Category,yAxisKey:count,title,rCode,pythonCode}"
PartialText == "{chartType:radar,xAxisKey:Pclass}"
GarbageText == "<html>502 Bad Gateway</html>"

ResponseTexts == {"", GarbageText, CountBarText, PartialText}

SyntaxError == [isNull |-> FALSE, syntaxError |-> TRUE]

\* JSON.parse(response.text) as VisualizationConfig: no field is checked
JSONParse(text) ==
    CASE text = CountBarText ->
            VisualizationConfig(ChartType_BAR, "Category", "count", NoArr, Arr(<<"#ff0000">>),
                                "Rows per category", "ggplot(...)", "sns.countplot(...)")
      [] text = PartialText ->
            VisualizationConfig(ChartType_RADAR, "Pclass", Undef, NoArr, NoArr,
                                Undef, Undef, Undef)
      [] OTHER -> SyntaxError

(***************************************************************************)
(* The application.                                                        *)
(***************************************************************************)
\* Bounds on the number of AI calls and of CSV uploads of a run
MaxRequests == 2
MaxUploads == 1

CsvAlert == "Failed to parse CSV"
AiAlert == "AI Generation failed. Please check your API Key or try again."
DefaultPrompt == "Visualize this data effectively"

Init ==
    /\ dataset = NULL
    /\ config = NULL
    /\ loading = FALSE
    /\ prompt = ""
    /\ imagePreview = NoImage
    /\ activeTab = "chart"
    /\ mounted = FALSE
    /\ parsing = {}
    /\ reading = {}
    /\ inflight = {}
    /\ issued = 0
    /\ uploads = 0
    /\ alerts = <<>>
    /\ apiKey \in BOOLEAN
    /\ view = Render(NULL, NULL, "chart")

\* Every handler ends with the re-render of App
Rerender == view' = Render(dataset', config', activeTab')

\* useEffect(() => loadExampleTitanic().then(res => setDataset(...)), []):
\* the promise resolves in the microtasks of the first commit, before any
\* input event is handled
MountEffect ==
    /\ ~mounted
    /\ mounted' = TRUE
    /\ dataset' = Dataset("Titanic Dataset", loadExampleTitanic.data, loadExampleTitanic.columns)
    /\ UNCHANGED <<config, loading, prompt, imagePreview, activeTab, parsing, reading,
                   inflight, issued, uploads, alerts, apiKey>>
    /\ Rerender

\* onChange of the textarea
setPrompt(text) ==
    /\ mounted
    /\ prompt' = text
    /\ UNCHANGED <<dataset, config, loading, imagePreview, activeTab, mounted, parsing,
                   reading, inflight, issued, uploads, alerts, apiKey>>
    /\ Rerender

\* onClick of a tab button
setActiveTab(tab) ==
    /\ mounted
    /\ activeTab' = tab
    /\ UNCHANGED <<dataset, config, loading, prompt, imagePreview, mounted, parsing,
                   reading, inflight, issued, uploads, alerts, apiKey>>
    /\ Rerender

\* handleFileUpload up to its await: files is e.target.files.  Two pending
\* parses of the same file continue the same way and are held as one
handleFileUpload(files) ==
    /\ mounted
    /\ IF Len(files) = 0
       THEN UNCHANGED <<parsing, uploads>>
       ELSE /\ uploads < MaxUploads
            /\ uploads' = uploads + 1
            /\ parsing' = parsing \cup {[file |-> files[1]]}
    /\ UNCHANGED <<dataset, config, loading, prompt, imagePreview, activeTab, mounted,
                   reading, inflight, issued, alerts, apiKey>>
    /\ Rerender

\* an upload that leaves the configuration in place
ConfigAfterUpload_Kept == config

\* setConfig(null) after setDataset
ConfigAfterUpload == NULL

\* handleFileUpload after its await, parseCSV resolved
handleFileUpload_try(job) ==
    /\ job \in parsing
    /\ parseCSV(job.file).ok
    /\ parsing' = parsing \ {job}
    /\ dataset' = Dataset(job.file.name, parseCSV(job.file).data, parseCSV(job.file).columns)
    /\ config' = ConfigAfterUpload
    /\ UNCHANGED <<loading, prompt, imagePreview, activeTab, mounted, reading, inflight,
                   issued, uploads, alerts, apiKey>>
    /\ Rerender

\* handleFileUpload after its await, parseCSV rejected
handleFileUpload_catch(job) ==
    /\ job \in parsing
    /\ ~parseCSV(job.file).ok
    /\ parsing' = parsing \ {job}
    /\ alerts' = Append(alerts, CsvAlert)
    /\ UNCHANGED <<dataset, config, loading, prompt, imagePreview, activeTab, mounted,
                   reading, inflight, issued, uploads, apiKey>>
    /\ Rerender

\* handleImageUpload: result is what the FileReader will hold at onloadend.
\* Two pending reads with the same result end the same way and are held as one
handleImageUpload(files) ==
    /\ mounted
    /\ IF Len(files) = 0
       THEN UNCHANGED reading
       ELSE reading' = reading \cup {files[1]}
    /\ UNCHANGED <<dataset, config, loading, prompt, imagePreview, activeTab, mounted,
                   parsing, inflight, issued, uploads, alerts, apiKey>>
    /\ Rerender

\* reader.onloadend = () => setImagePreview(reader.result)
onloadend(result) ==
    /\ result \in reading
    /\ reading' = reading \ {result}
    /\ imagePreview' = result
    /\ UNCHANGED <<dataset, config, loading, prompt, activeTab, mounted, parsing,
                   inflight, issued, uploads, alerts, apiKey>>
    /\ Rerender

\* a button that is disabled only while there is no dataset
Disabled_IgnoresLoading == dataset = NULL

\* disabled={loading || !dataset}
Disabled == loading \/ dataset = NULL

\* a branch that refines whenever a configuration exists
ShouldRefine_AnyConfig == config # NULL

\* config && prompt && !imagePreview
ShouldRefine == config # NULL /\ prompt # "" /\ imagePreview.isNull

\* dataSample.slice(0, 3)
Slice3(data) == SubSeq(data, 1, IF Len(data) < 3 THEN Len(data) ELSE 3)

\* What a call sends: the operation, the prompt's variable parts and the image part
Request(id, op, currentConfig, userPrompt, image, columns, dataSample) ==
    [id |-> id, op |-> op, currentConfig |-> currentConfig, userPrompt |-> userPrompt,
     image |-> image, columns |-> columns, dataSample |-> dataSample,
     \* the state the handler's closure holds while it awaits
     closure |-> [config |-> config, dataset |-> dataset.name]]

refineConfig(id, currentConfig, userPrompt) ==
    Request(id, "refineConfig", currentConfig, userPrompt, NoImage, <<>>, <<>>)

analyzeImageAndData(id, imageDataBase64, dataSample, columns, userPrompt) ==
    Request(id, "analyzeImageAndData", NULL, userPrompt,
            IF imageDataBase64.isNull THEN NoImage ELSE DataUrl(CleanBase64(imageDataBase64)),
            columns, Slice3(dataSample))

\* The call handleGenerate makes
NewRequest ==
    IF ShouldRefine
    THEN refineConfig(issued + 1, config, prompt)
    ELSE analyzeImageAndData(issued + 1, imagePreview, dataset.data, dataset.columns,
                             IF prompt = "" THEN DefaultPrompt ELSE prompt)

\* a handler without the finally block
LoadingAfterCall_Stuck == loading

\* finally { setLoading(false) }
LoadingAfterCall == FALSE

\* a catch block that also resets the configuration
ConfigAfterFailure_Reset == NULL

\* catch: console.error and alert, the configuration is not touched
ConfigAfterFailure == config

\* handleGenerate up to its await; getAiClient throws when the key is missing,
\* which rejects the call before any other event can run
handleGenerate ==
    IF dataset = NULL
    THEN UNCHANGED <<config, loading, inflight, issued, alerts>>
    ELSE /\ issued' = issued + 1
         /\ IF apiKey
            THEN /\ loading' = TRUE
                 /\ inflight' = inflight \cup {NewRequest}
                 /\ UNCHANGED <<config, alerts>>
            ELSE /\ loading' = LoadingAfterCall
                 /\ alerts' = Append(alerts, AiAlert)
                 /\ config' = ConfigAfterFailure
                 /\ UNCHANGED inflight

\* A click on the generate button: the handler runs unless the button is disabled
ClickGenerate ==
    /\ issued < MaxRequests
    /\ IF Disabled
       THEN UNCHANGED <<config, loading, inflight, issued, alerts>>
       ELSE handleGenerate
    /\ UNCHANGED <<dataset, prompt, imagePreview, activeTab, mounted, parsing, reading,
                   uploads, apiKey>>
    /\ Rerender

\* How ai.models.generateContent settles: rejected, or resolved with a text
Responses ==
    {[rejected |-> TRUE, text |-> ""]} \cup {[rejected |-> FALSE, text |-> t] : t \in ResponseTexts}

\* if (!response.text) throw ...; return JSON.parse(response.text)
ParseResponse(response) ==
    IF response.rejected \/ response.text = "" THEN SyntaxError
    ELSE JSONParse(response.text)

Thrown(response) == ParseResponse(response) = SyntaxError

\* handleGenerate after its await, the call resolved: setConfig(newConfig).
\* The render that follows the state updates is joined in AiResolved
handleGenerate_try(r, response) ==
    /\ r \in inflight
    /\ ~Thrown(response)
    /\ inflight' = inflight \ {r}
    /\ config' = ParseResponse(response)
    /\ loading' = LoadingAfterCall
    /\ UNCHANGED <<dataset, prompt, imagePreview, activeTab, mounted, parsing, reading,
                   issued, uploads, alerts, apiKey>>

\* handleGenerate after its await, the call rejected; the render is joined in
\* AiRejected
handleGenerate_catch(r, response) ==
    /\ r \in inflight
    /\ Thrown(response)
    /\ inflight' = inflight \ {r}
    /\ alerts' = Append(alerts, AiAlert)
    /\ config' = ConfigAfterFailure
    /\ loading' = LoadingAfterCall
    /\ UNCHANGED <<dataset, prompt, imagePreview, activeTab, mounted, parsing, reading,
                   issued, uploads, apiKey>>

Upload == \E files \in {<<>>} \cup {<<f>> : f \in CsvFiles} : handleFileUpload(files)
UploadParsed == \E job \in parsing : handleFileUpload_try(job)
UploadFailed == \E job \in parsing : handleFileUpload_catch(job)
ImageUpload == \E files \in {<<>>} \cup {<<f>> : f \in ImageResults} : handleImageUpload(files)
ImageLoaded == \E result \in reading : onloadend(result)
Typing == \E text \in Prompts : setPrompt(text)
TabClick == \E tab \in Tabs : setActiveTab(tab)
AiResolved ==
    \E r \in inflight, response \in Responses : handleGenerate_try(r, response) /\ Rerender
AiRejected ==
    \E r \in inflight, response \in Responses : handleGenerate_catch(r, response) /\ Rerender

Next ==
    \/ MountEffect
    \/ Upload
    \/ UploadParsed
    \/ UploadFailed
    \/ ImageUpload
    \/ ImageLoaded
    \/ Typing
    \/ TabClick
    \/ ClickGenerate
    \/ AiResolved
    \/ AiRejected

Spec == Init /\ [][Next]_vars

\* handleGenerate resuming after its await, whichever way the call settled
Resume ==
    \E r \in inflight, response \in Responses :
        handleGenerate_try(r, response) \/ handleGenerate_catch(r, response)

\* Every call settles and the event loop runs the continuation: a step of
\* Resume is one of AiResolved or AiRejected, which render the state it leaves
FairSpec == Spec /\ WF_inflight(Resume)

(***************************************************************************)
(* Properties of the application.                                          *)
(***************************************************************************)
\* The state of App held in useState
appState == <<dataset, config, loading, prompt, imagePreview, activeTab>>

\* C1: at most one AI request is outstanding, no step taken while loading
\* is true starts a request, and a click on the generate button while
\* loading is true changes nothing.
C1_MutualExclusion ==
    /\ [](Cardinality(inflight) <= 1)
    /\ [][loading => (issued' = issued /\ inflight' \subseteq inflight)]_vars
    /\ [][(ClickGenerate /\ loading) => UNCHANGED vars]_vars

\* A request is outstanding and another click is possible
C1_Witness == loading /\ Cardinality(inflight) = 1 /\ issued < MaxRequests

\* Does Papa.parse report a usable result for the file
ParsesWell(file) == ~file.results.error /\ file.results.fields.isArray

\* C2: whenever a CSV upload completes successfully, the dataset is the
\* uploaded one and the configuration is null immediately afterwards.
C2_UploadClearsConfig ==
    [][\A job \in parsing :
          (parsing' = parsing \ {job} /\ ParsesWell(job.file)) =>
              /\ config' = NULL
              /\ dataset' = Dataset(job.file.name, job.file.results.data,
                                    job.file.results.fields.items)]_vars

\* An upload completed after a generation had stored a configuration
C2_Witness ==
    /\ dataset # NULL
    /\ dataset.name = "survey.csv"
    /\ config = NULL
    /\ apiKey /\ issued >= 1 /\ inflight = {} /\ alerts = <<>>

\* A response that is no configuration: a rejected call, no text, no JSON
IsFailure(response) ==
    response.rejected \/ response.text = "" \/ response.text = GarbageText

\* The continuation of handleGenerate for request r settled with response
Settles(r, response) == handleGenerate_try(r, response) \/ handleGenerate_catch(r, response)

\* C3 (as claimed): when an AI call fails, the user is alerted, loading ends
\* false, no further call is made and the configuration is the one held
\* when the generation was triggered.
C3_ConfigAsAtTrigger ==
    [][\A r \in inflight, response \in Responses :
          (IsFailure(response) /\ Settles(r, response)) =>
              /\ alerts' = Append(alerts, AiAlert)
              /\ loading' = FALSE
              /\ issued' = issued
              /\ config' = r.closure.config]_vars

\* C3 (amended): when an AI call fails, the user is alerted, loading ends
\* false, no further call is made and the failure leaves the configuration
\* as it was: the one held when the generation was triggered, or null when
\* a CSV upload completed while the call was outstanding.  A call that
\* fails at once for want of an API key does the same.
C3_FailureKeepsConfig ==
    /\ [][\A r \in inflight, response \in Responses :
            (IsFailure(response) /\ Settles(r, response)) =>
                /\ alerts' = Append(alerts, AiAlert)
                /\ loading' = FALSE
                /\ issued' = issued
                /\ inflight' = inflight \ {r}
                /\ config' = config
                /\ config' \in {r.closure.config, NULL}]_vars
    /\ [][(~apiKey /\ issued' # issued) =>
                /\ alerts' = Append(alerts, AiAlert)
                /\ loading' = FALSE
                /\ issued' = issued + 1
                /\ inflight' = inflight
                /\ config' = config]_vars

\* A second generation failed and the configuration of the first is kept
C3_Witness ==
    /\ apiKey /\ issued = 2 /\ inflight = {} /\ ~loading
    /\ alerts = <<AiAlert>>
    /\ config # NULL

\* C4: when a CSV upload fails to parse, the user is alerted and dataset,
\* config, loading, prompt, image preview and active tab are unchanged, by
\* the start of the upload and by its failure.
C4_FailedUploadChangesNothing ==
    /\ [][\A job \in parsing :
            (parsing' = parsing \ {job} /\ ~ParsesWell(job.file)) =>
                /\ alerts' = Append(alerts, CsvAlert)
                /\ UNCHANGED appState]_vars
    /\ [][uploads' # uploads => UNCHANGED <<appState, alerts>>]_vars

\* An upload failed while a configuration was held
C4_Witness ==
    /\ alerts # <<>> /\ alerts[Len(alerts)] = CsvAlert
    /\ config # NULL
    /\ dataset.name = "Titanic Dataset"

MandatoryFields == {"chartType", "xAxisKey", "yAxisKey", "title", "rCode", "pythonCode"}

\* C7 (as claimed): a payload that lacks a mandatory field never becomes the
\* stored configuration.
C7_StoredConfigComplete ==
    config # NULL => \A f \in MandatoryFields : config[f] # Undef

\* The requests a step sends
Sent == inflight' \ inflight

\* C9 (as claimed): a generation triggered while a configuration exists
\* calls refineConfig with that configuration and the instruction and sends
\* no image; one triggered without a configuration is a full generation.
C9_RefinesWheneverConfig ==
    [][\A r \in Sent :
          IF config # NULL
          THEN /\ r.op = "refineConfig"
               /\ r.currentConfig = config
               /\ r.userPrompt = prompt
               /\ r.image.isNull
          ELSE r.op = "analyzeImageAndData"]_vars

\* C9 (amended): a generation triggered while a configuration exists, the
\* instruction is not empty and no reference image is loaded calls
\* refineConfig with that configuration and the instruction and sends no
\* image; every other generation is a full generation, which sends the
\* loaded image, the columns and the first rows of the dataset.
C9_RefinesWhenPromptAndNoImage ==
    [][\A r \in Sent :
          IF config # NULL /\ prompt # "" /\ imagePreview.isNull
          THEN /\ r.op = "refineConfig"
               /\ r.currentConfig = config
               /\ r.userPrompt = prompt
               /\ r.image.isNull
          ELSE /\ r.op = "analyzeImageAndData"
               /\ r.currentConfig = NULL
               /\ r.image.isNull = imagePreview.isNull
               /\ r.columns = dataset.columns
               /\ r.userPrompt = (IF prompt = "" THEN DefaultPrompt ELSE prompt)]_vars

\* A refinement is outstanding
C9_Witness ==
    \E r \in inflight :
        r.op = "refineConfig" /\ r.currentConfig # NULL /\ r.userPrompt = "make the bars red"

\* C12 (as claimed): a response is stored as the configuration only while the
\* dataset its request was issued for is still the loaded one, so a non-null
\* configuration always comes from a call made for the current dataset.
C12_ConfigOfCurrentDataset ==
    [][\A r \in inflight, response \in Responses :
          handleGenerate_try(r, response) => r.closure.dataset = dataset'.name]_vars

\* C10: loading is true exactly while a request is outstanding (never
\* without a dataset); every generation's loading ends; and the step that
\* settles a call leaves loading false and the generate button enabled.
C10_LoadingEnds ==
    /\ [](loading <=> inflight # {})
    /\ [](dataset = NULL => ~loading)
    /\ [][inflight' # inflight /\ inflight' \subseteq inflight => ~loading' /\ ~Disabled']_vars
    /\ (loading ~> ~loading)

\* Two generations have run, one after the other
C10_Witness == apiKey /\ issued = 2 /\ ~loading /\ inflight = {}

(***************************************************************************)
(* The render alone: App holds a dataset and a configuration, and the      *)
(* render computes chartData and the chart from them.                      *)
(***************************************************************************)
\* Datasets of up to three blocks of rows
GeneratedData ==
    {Block(v1, n1) \o Block(v2, n2) \o Block(v3, n3) :
        <<v1, v2, v3>> \in CellValues \X CellValues \X CellValues,
        <<n1, n2, n3>> \in BlockSizes \X BlockSizes \X BlockSizes}

\* Configurations that vary what processData reads
AxisConfigs ==
    {VisualizationConfig(t, x, y, NoArr, NoArr, "title", "r", "py") :
        t \in {ChartType_BAR, ChartType_PIE, ChartType_LINE},
        x \in {"Category", "Pclass"},
        y \in {Undef, "count", "Survived"}}

ManyKeys == <<"Survived", "Pclass", "SibSp", "PassengerId", "Sex", "Embarked", "Age", "Fare">>

\* Configurations that vary what renderChart reads
SeriesConfigs ==
    {VisualizationConfig(t, "Pclass", y, sk, cs, "title", "r", "py") :
        t \in ChartType \cup {"violin", Undef},
        y \in {Undef, "", "Survived"},
        sk \in {NoArr, Arr(<<>>), Arr(<<"Survived">>), Arr(ManyKeys)},
        cs \in {NoArr, Arr(<<>>), Arr(<<"#ff0000">>), Arr(<<"", "#00ff00">>)}}

ViewInit ==
    /\ \/ /\ dataset \in {Dataset("generated.csv", d, <<"Category", "Pclass">>) : d \in GeneratedData}
          /\ config \in AxisConfigs
       \/ /\ dataset \in {Dataset("Titanic Dataset", TitanicData, TitanicColumns),
                           Dataset("survey.csv", SurveyData, <<"Category", "Pclass">>)}
          /\ config \in SeriesConfigs
    /\ loading = FALSE
    /\ prompt = ""
    /\ imagePreview = NoImage
    /\ activeTab = "chart"
    /\ mounted = TRUE
    /\ parsing = {}
    /\ reading = {}
    /\ inflight = {}
    /\ issued = 0
    /\ uploads = 0
    /\ alerts = <<>>
    /\ apiKey = TRUE
    /\ view = Unrendered

\* The render that follows setDataset / setConfig
RenderApp ==
    /\ view = Unrendered
    /\ view' = Render(dataset, config, activeTab)
    /\ UNCHANGED <<dataset, config, loading, prompt, imagePreview, activeTab, mounted,
                   parsing, reading, inflight, issued, uploads, alerts, apiKey>>

ViewNext == RenderApp

ViewSpec == ViewInit /\ [][ViewNext]_vars

(***************************************************************************)
(* Properties of the render.                                               *)
(***************************************************************************)
Rendered == view # Unrendered /\ dataset # NULL /\ config # NULL

\* The sum of the aggregated values, when every one of them is a number
RECURSIVE SumOfValues(_, _, _)
SumOfValues(entries, key, i) ==
    IF i > Len(entries) THEN 0
    ELSE Get(entries[i], key).n + SumOfValues(entries, key, i + 1)

ValuesSumTo(entries, key, total) ==
    /\ \A i \in 1..Len(entries) : Get(entries[i], key).t = "number"
    /\ SumOfValues(entries, key, 1) = total

\* The distinct values of a column, told apart by their string form (the
\* form the rows are grouped by)
DistinctValues(data, key) == {String(Get(data[i], key)) : i \in 1..Len(data)}

\* Pie or Bar, more than 20 rows, no y-axis key
C5_Case ==
    /\ Rendered
    /\ config.chartType \in {"pie", "bar"}
    /\ Len(dataset.data) > 20
    /\ config.yAxisKey \in {Undef, ""}

\* C5 (as claimed): for more than 20 rows, Pie or Bar and no y-axis key, the
\* aggregated output has one entry per distinct value of the x-axis key and
\* its values sum to the number of rows.
C5_OneEntryPerValue ==
    C5_Case =>
        /\ Len(view.chartData) = Cardinality(DistinctValues(dataset.data, config.xAxisKey))
        /\ ValuesSumTo(view.chartData, "value", Len(dataset.data))

\* C6: processData aggregates exactly when the chart type is Pie or Bar, the
\* dataset has more than 20 rows and the y-axis key is absent or "count";
\* in every other case the chart data are the raw rows, unchanged and in order.
C6_AggregatesOnlyWhen ==
    Rendered =>
        IF /\ config.chartType \in {"pie", "bar"}
           /\ Len(dataset.data) > 20
           /\ config.yAxisKey \in {Undef, "", "count"}
        THEN /\ view.chartData # dataset.data
             /\ \A i \in 1..Len(view.chartData) :
                    DOMAIN view.chartData[i] =
                        {config.xAxisKey, "name",
                         IF config.yAxisKey = "count" THEN "count" ELSE "value"}
        ELSE view.chartData = dataset.data

\* A 6-row dataset with a Bar configuration without y-axis key is plotted raw
C6_Witness ==
    /\ Rendered
    /\ Len(dataset.data) = 6
    /\ config.chartType = "bar"
    /\ config.yAxisKey = Undef
    /\ Len(view.chartData) = 6

ExplicitCases == {"bar", "line", "scatter", "pie", "area"}

\* C8: a configuration whose chart type is none of bar, line, scatter, pie,
\* area is rendered by the default case: a composed chart with one Bar per
\* series key (the y-axis key alone when there are no series keys).
C8_DefaultRendering ==
    (Rendered /\ activeTab = "chart" /\ config.chartType \notin ExplicitCases) =>
        LET keys == IF config.seriesKeys.isArray /\ config.seriesKeys.items # <<>>
                    THEN config.seriesKeys.items
                    ELSE <<config.yAxisKey>>
        IN /\ view.panel.kind = "ComposedChart"
           /\ view.panel.data = view.chartData
           /\ Len(view.panel.series) = Len(keys)
           /\ \A i \in 1..Len(keys) :
                /\ view.panel.series[i].el = "Bar"
                /\ view.panel.series[i].dataKey = keys[i]

\* A type outside the enumeration, with several series keys, is rendered
C8_Witness ==
    /\ Rendered
    /\ config.chartType = "violin"
    /\ config.seriesKeys = Arr(ManyKeys)
    /\ view.panel.kind = "ComposedChart"
    /\ Len(view.panel.series) = Len(ManyKeys)

\* The element drawn for each series key, by chart type
SeriesElement(chartType) ==
    CASE chartType = "bar" -> "Bar"
      [] chartType = "line" -> "Line"
      [] chartType = "area" -> "Area"
      [] OTHER -> "Bar"

\* The color the configuration gives for index i (counted from 0), or "" when
\* its list is absent, is too short, or holds no color there
ConfiguredColor(i) ==
    IF config.colors.isArray /\ i < Len(config.colors.items)
    THEN config.colors.items[i + 1]
    ELSE ""

\* C11: for Bar, Line, Area and the default rendering, one series is drawn
\* for each configured series key, or one for the y-axis key when the list of
\* series keys is absent or empty; series i has the configured color of index
\* i when there is one and the color i mod 7 of the fallback palette
\* otherwise; and every series and every pie slice of any chart has a color.
C11_SeriesAndColors ==
    (Rendered /\ activeTab = "chart") =>
        LET series == view.panel.series
            keys == IF config.seriesKeys.isArray /\ config.seriesKeys.items # <<>>
                    THEN config.seriesKeys.items
                    ELSE <<config.yAxisKey>>
        IN /\ config.chartType \notin {"scatter", "pie"} =>
                /\ Len(series) = Len(keys)
                /\ \A i \in 1..Len(keys) :
                      /\ series[i].el = SeriesElement(config.chartType)
                      /\ series[i].dataKey = keys[i]
                      /\ series[i].color =
                            IF ConfiguredColor(i - 1) # ""
                            THEN ConfiguredColor(i - 1)
                            ELSE COLORS[((i - 1) % 7) + 1]
           /\ config.chartType = "pie" => Len(series) = Len(view.chartData)
           /\ \A i \in 1..Len(series) : series[i].color \notin {Undef, ""}

\* A line chart of eight series with a two-entry color list whose first entry
\* is empty: series 0 and 7 take the first palette color, series 1 the
\* configured one, series 2 the third palette color
C11_Witness ==
    /\ Rendered
    /\ config.chartType = "line"
    /\ config.seriesKeys = Arr(ManyKeys)
    /\ config.colors = Arr(<<"", "#00ff00">>)
    /\ Len(view.panel.series) = 8
    /\ view.panel.series[1].color = "#3b82f6"
    /\ view.panel.series[2].color = "#00ff00"
    /\ view.panel.series[3].color = "#f59e0b"
    /\ view.panel.series[8].color = "#3b82f6"
====
